---- MODULE Spec2Model ----
(***************************************************************************)
(* Model of src/py_jl/julia_funcs.py: a Python module that starts an       *)
(* embedded Julia runtime at import, activates the project environment,    *)
(* includes julia_funcs.jl and exposes hello() and float_double(n).        *)
(*                                                                         *)
(* Numbers are exact: a finite number is a sign and the set of its binary  *)
(* digit positions (2^53 + 1 is {53, 0}; -3.5 is sign -1 with {1, 0, -1}), *)
(* so that binary64 rounding and overflow happen at their real widths.     *)
(* An optional value (None or x) is a sequence of length 0 or 1.           *)
(***************************************************************************)
EXTENDS Integers, Sequences, FiniteSets, TLC

\* ---------------------------------------------------------------- bounds
\* small ints -MaxInt..MaxInt and small halves -MaxInt/2..MaxInt/2 are inputs
MaxInt == 2
\* the module file is installed at most MaxDepth directories below the root
MaxDepth == 2

\* ------------------------------------------------- binary64 (Python float)
MantissaBits == 53
MaxExp == 1023

\* ---------------------------------------------------------------- values
Val(t, k, s, b, txt) == [t |-> t, k |-> k, s |-> s, b |-> b, txt |-> txt]
PyInt(s, b) == Val("int", "fin", s, b, <<>>)
PyFloat(s, b) == Val("float", "fin", s, b, <<>>)
PyInf(s) == Val("float", "inf", s, {}, <<>>)
PyNaN == Val("float", "nan", 1, {}, <<>>)
PyStr(txt) == Val("str", "str", 1, {}, txt)
PyNone == Val("NoneType", "None", 1, {}, <<>>)

MaxOf(S) == CHOOSE x \in S : \A y \in S : y <= x
Abs(z) == IF z < 0 THEN -z ELSE z
Sign(z) == IF z < 0 THEN -1 ELSE 1
Pow2(i) == IF i = 0 THEN 1 ELSE IF i = 1 THEN 2 ELSE IF i = 2 THEN 4 ELSE 8
\* binary digits of a natural number below 16, moved by shift positions
BitsOf(m, shift) == {i + shift : i \in {j \in 0..3 : (m \div Pow2(j)) % 2 = 1}}
Shift(b, d) == {x + d : x \in b}

\* ---------------------------------------------------- float(n), line 22
Ok(v) == [ok |-> TRUE, val |-> v, err |-> "None"]
Err(e) == [ok |-> FALSE, val |-> PyNone, err |-> e]

\* round the digits b of a non-zero int to MantissaBits significant digits,
\* ties to even
RoundToFloat(b) ==
    LET M == MaxOf(b)
        c == M - (MantissaBits - 1)
        kept == {x \in b : x >= c}
        rest == {x \in b : x < c}
        half == (c - 1) \in rest
        sticky == \E x \in rest : x < c - 1
        odd == c \in kept
        z == CHOOSE x \in c..(M + 1) : x \notin kept /\ \A y \in c..(x - 1) : y \in kept
    IN  IF half /\ (sticky \/ odd) THEN {x \in kept : x > z} \cup {z} ELSE kept

IntToFloat(n) ==
    IF n.b = {} THEN Ok(PyFloat(1, {}))
    ELSE LET r == RoundToFloat(n.b)
         IN  IF MaxOf(r) > MaxExp THEN Err("OverflowError") ELSE Ok(PyFloat(n.s, r))

\* float() of a str: the literals the model's callers pass
ParseFloat(txt) ==
    CASE txt = <<"1", ".", "5">> -> Ok(PyFloat(1, {0, -1}))
      [] txt = <<"i", "n", "f">> -> Ok(PyInf(1))
      [] OTHER -> Err("ValueError")

Float(n) ==
    CASE n.t = "float" -> Ok(n)
      [] n.t = "int" -> IntToFloat(n)
      [] n.t = "str" -> ParseFloat(n.txt)
      [] OTHER -> Err("TypeError")

\* --------------------------------------- Python's 2 * n and a == b on numbers
Times2(n) ==
    IF n.k # "fin" THEN n
    ELSE IF n.t = "float" /\ n.b # {} /\ MaxOf(n.b) + 1 > MaxExp THEN PyInf(n.s)
    ELSE [n EXCEPT !.b = Shift(n.b, 1)]

PyEq(a, b) ==
    /\ a.t \in {"int", "float"} /\ b.t \in {"int", "float"}
    /\ a.k # "nan" /\ b.k # "nan"
    /\ a.k = b.k
    /\ \/ a.k = "fin" /\ a.b = {} /\ b.b = {}
       \/ a.s = b.s /\ a.b = b.b

\* ------------------------------------------------------- julia_funcs.jl
\* The peer script is not part of the sources; its two functions are modelled
\* from their description: hello() returns a greeting, float_double(n) is 2n.
JlHello == PyStr(<<"H", "e", "l", "l", "o">>)
JlFloatDouble(x) ==
    IF x.k # "fin" \/ x.b = {} THEN x
    ELSE IF x.t = "float" /\ MaxOf(x.b) + 1 > MaxExp THEN PyInf(x.s)
    ELSE [x EXCEPT !.b = Shift(x.b, 1)]

Names == {"hello", "float_double"}
EmptyMain == [f \in Names |-> "absent"]
Item(d, body) == [def |-> d, body |-> body]
SyntaxError == Item("error", "error")
\* the files that may sit at the script's path: a script is a sequence of
\* top-level items, a definition of a function (sound or throwing) or an
\* item that fails to parse or run
RepoScript == <<Item("hello", "ok"), Item("float_double", "ok")>>
Scripts ==
    { RepoScript,
      <<Item("hello", "ok")>>,
      <<Item("float_double", "ok")>>,
      <<Item("hello", "throws"), Item("float_double", "throws")>>,
      <<Item("hello", "ok"), SyntaxError, Item("float_double", "ok")>>,
      <<SyntaxError>> }

\* Main.include evaluates the items in order and stops at the first failure
RECURSIVE RunScript(_, _)
RunScript(items, main) ==
    IF items = <<>> THEN [ok |-> TRUE, main |-> main]
    ELSE IF Head(items).def = "error" THEN [ok |-> FALSE, main |-> main]
    ELSE RunScript(Tail(items), [main EXCEPT ![Head(items).def] = Head(items).body])

\* ---------------------------------------------------------------- paths
\* the directories the module file may sit under, outermost first
DirNames == <<"src", "py_jl", "lib", "opt">>
ModuleFiles == {Append(SubSeq(DirNames, 1, d), "julia_funcs.py") : d \in 0..MaxDepth}
\* pathlib: the parent of the root is the root
Parent(path) == IF path = <<>> THEN <<>> ELSE SubSeq(path, 1, Len(path) - 1)
ScriptPath(file) == Append(Parent(file), "julia_funcs.jl")
ProjectDir(path) == Parent(Parent(path))

\* ---------------------------------------------------------------- inputs
Inputs ==
    {PyInt(Sign(z), BitsOf(Abs(z), 0)) : z \in (-MaxInt)..MaxInt}
    \cup {PyFloat(Sign(h), BitsOf(Abs(h), -1)) : h \in (-MaxInt)..MaxInt}
    \cup { PyInt(1, {6, 5, 2}),          \* 100
           PyFloat(-1, {1, 0, -1}),      \* -3.5
           PyFloat(-1, {}),              \* -0.0
           PyInt(1, {53, 0}),            \* 2^53 + 1, a tie, rounds down
           PyInt(-1, {53, 1, 0}),        \* -(2^53 + 3), a tie, rounds up
           PyInt(1, 0..53),              \* 2^54 - 1, rounds up to 2^54
           PyInt(1, {1023}),             \* 2^1023
           PyInt(1, {1024}),             \* 2^1024, too large for a float
           PyFloat(1, {1023}),
           PyInf(-1), PyNaN,
           PyStr(<<"1", ".", "5">>), PyStr(<<"a", "b", "c">>), PyNone }

\* ---------------------------------------------------------------- state
VARIABLES
    world,      \* what the process finds on the machine: the module's file,
                \* whether Julia starts, whether the project activates, and
                \* the script file (<<>> when missing)
    pc,         \* the line of the module body to run next, "loaded" once the
                \* body has run to its end, "failed" once a line has raised
    raised,     \* the exception that ended the module body, "None" so far
    jl,         \* line 3: the runtime handle, <<>> until created
    imported,   \* line 4: Main and Pkg are bound
    p,          \* line 6: the script's path, <<>> until assigned
    env,        \* the project directory Pkg has activated, <<>> until then
    included,   \* the path Main.include was given, <<>> until then
    main,       \* Julia's Main namespace: what each name is defined as
    lastCall,   \* the latest call of hello or float_double and how it ended
    pin,        \* an earlier call of float_double kept for comparison
    since       \* the kinds of call made after the pinned one

vars == <<world, pc, raised, jl, imported, p, env, included, main, lastCall, pin, since>>

NoCall == [fn |-> "none", arg |-> <<>>, outcome |-> "none", value |-> PyNone,
           err |-> "None", peer |-> <<>>]
Return(fn, arg, v, peer) ==
    [fn |-> fn, arg |-> arg, outcome |-> "return", value |-> v, err |-> "None", peer |-> peer]
Raise(fn, arg, e, peer) ==
    [fn |-> fn, arg |-> arg, outcome |-> "raise", value |-> PyNone, err |-> e, peer |-> peer]

Init ==
    /\ world \in [file : ModuleFiles, juliaOk : BOOLEAN, projectOk : BOOLEAN,
                  script : {<<>>} \cup {<<sc>> : sc \in Scripts}]
    /\ pc = "l3"
    /\ raised = "None"
    /\ jl = <<>>
    /\ imported = FALSE
    /\ p = <<>>
    /\ env = <<>>
    /\ included = <<>>
    /\ main = EmptyMain
    /\ lastCall = NoCall
    /\ pin = <<>>
    /\ since = {}

\* ------------------------------------------------- module body, lines 1-8
\* variant: the script is included before the environment is activated
NextLine_include_first(line) ==
    CASE line = "l3" -> "l4"
      [] line = "l4" -> "l6"
      [] line = "l6" -> "l8"
      [] line = "l8" -> "l7"
      [] line = "l7" -> "loaded"
      [] OTHER -> line

\* the statements of the module body run top to bottom
NextLine(line) ==
    CASE line = "l3" -> "l4"
      [] line = "l4" -> "l6"
      [] line = "l6" -> "l7"
      [] line = "l7" -> "l8"
      [] line = "l8" -> "loaded"
      [] OTHER -> line

\* variant: the failing statement sits in a try block that passes
OnError_continue(line) == NextLine(line)

\* no statement of the body sits in a try block: an exception ends the import
OnError(line) == "failed"

\* line 3: jl = Julia(compiled_modules=False)
CreateRuntime ==
    /\ pc = "l3"
    /\ IF world.juliaOk
       THEN /\ jl' = <<"Julia">>
            /\ pc' = NextLine(pc)
            /\ raised' = raised
       ELSE /\ jl' = jl
            /\ pc' = OnError(pc)
            /\ raised' = "JuliaStartError"
    /\ UNCHANGED <<world, imported, p, env, included, main, lastCall, pin, since>>

\* line 4: from julia import Main, Pkg
ImportMainPkg ==
    /\ pc = "l4"
    /\ imported' = TRUE
    /\ pc' = NextLine(pc)
    /\ UNCHANGED <<world, raised, jl, p, env, included, main, lastCall, pin, since>>

\* line 6: p = Path(__file__).parent / "julia_funcs.jl"
ResolvePath ==
    /\ pc = "l6"
    /\ p' = <<ScriptPath(world.file)>>
    /\ pc' = NextLine(pc)
    /\ UNCHANGED <<world, raised, jl, imported, env, included, main, lastCall, pin, since>>

\* line 7: Pkg.activate(str(p.parent.parent))
ActivateEnv ==
    /\ pc = "l7"
    /\ IF world.projectOk
       THEN /\ env' = <<ProjectDir(p[1])>>
            /\ pc' = NextLine(pc)
            /\ raised' = raised
       ELSE /\ env' = env
            /\ pc' = OnError(pc)
            /\ raised' = "PkgActivateError"
    /\ UNCHANGED <<world, jl, imported, p, included, main, lastCall, pin, since>>

\* line 8: Main.include(str(p))
IncludeScript ==
    /\ pc = "l8"
    /\ included' = <<p[1]>>
    /\ IF world.script = <<>>
       THEN /\ main' = main
            /\ pc' = OnError(pc)
            /\ raised' = "IncludeError"
       ELSE LET r == RunScript(world.script[1], main)
            IN  /\ main' = r.main
                /\ pc' = IF r.ok THEN NextLine(pc) ELSE OnError(pc)
                /\ raised' = IF r.ok THEN raised ELSE "IncludeError"
    /\ UNCHANGED <<world, jl, imported, p, env, lastCall, pin, since>>

\* ------------------------------------------ hello and float_double, 10-23
\* variant: the two functions are defined above the initialization
HostBound_early(line) == Names

\* the def statements of lines 10 and 16 run after line 8: the two names
\* exist only in a module whose body ran to its end
HostBound(line) == IF line = "loaded" THEN Names ELSE {}

\* Main.<name>(*args): look the name up in Main, call it once, hand its
\* value or its exception to the caller
Delegate(fn, arg, name, args, ns) ==
    CASE ns[name] = "absent" -> Raise(fn, arg, "AttributeError", <<>>)
      [] ns[name] = "throws" -> Raise(fn, arg, "JuliaError", <<[name |-> name, args |-> args]>>)
      [] OTHER -> Return(fn, arg,
                         IF name = "hello" THEN JlHello ELSE JlFloatDouble(args[1]),
                         <<[name |-> name, args |-> args]>>)

\* variant: hello catches the failure and returns an empty greeting
hello_default(ns) ==
    IF ns["hello"] = "ok" THEN Delegate("hello", <<>>, "hello", <<>>, ns)
    ELSE Return("hello", <<>>, PyStr(<<>>), <<>>)

\* variant: hello calls the peer and drops its value
hello_no_return(ns) ==
    LET r == Delegate("hello", <<>>, "hello", <<>>, ns)
    IN  IF r.outcome = "return" THEN [r EXCEPT !.value = PyNone] ELSE r

\* lines 10-14
hello(ns) == Delegate("hello", <<>>, "hello", <<>>, ns)

\* variant: float_double returns the converted number, not the peer's result
float_double_returns_tmp(n, ns) ==
    LET tmp == Float(n)
        r == Delegate("float_double", <<n>>, "float_double", <<tmp.val>>, ns)
    IN  IF ~tmp.ok THEN Raise("float_double", <<n>>, tmp.err, <<>>)
        ELSE IF r.outcome = "return" THEN [r EXCEPT !.value = tmp.val] ELSE r

\* variant: float_double keeps the last value returned and hands it out again
float_double_cached(n, ns) ==
    LET tmp == Float(n)
    IN  IF ~tmp.ok THEN Raise("float_double", <<n>>, tmp.err, <<>>)
        ELSE IF lastCall.fn = "float_double" /\ lastCall.outcome = "return"
        THEN Return("float_double", <<n>>, lastCall.value, <<>>)
        ELSE Delegate("float_double", <<n>>, "float_double", <<tmp.val>>, ns)

\* variant: float_double passes n to the peer as it came
float_double_unconverted(n, ns) ==
    Delegate("float_double", <<n>>, "float_double", <<n>>, ns)

\* lines 16-23
float_double(n, ns) ==
    LET tmp == Float(n)
    IN  IF tmp.ok THEN Delegate("float_double", <<n>>, "float_double", <<tmp.val>>, ns)
        ELSE Raise("float_double", <<n>>, tmp.err, <<>>)

\* a caller reaches the two functions through the import of the module; when
\* the module body raised, that exception is what the caller's attempt gets
Unloaded(fn, arg) == Raise(fn, arg, raised, <<>>)

\* variant: a call wipes the definitions of Main
CallFrame_clobbers ==
    /\ main' = EmptyMain
    /\ UNCHANGED <<world, pc, raised, jl, imported, p, env, included>>

\* variant: a call sends the module through its body again
CallFrame_reloads ==
    /\ pc' = "l3"
    /\ UNCHANGED <<world, raised, jl, imported, p, env, included, main>>

\* neither function assigns a module-level name, and neither peer function
\* defines or removes anything in Main
CallFrame == UNCHANGED <<world, pc, raised, jl, imported, p, env, included, main>>

Hello ==
    /\ pc \in {"loaded", "failed"}
    /\ lastCall' = IF "hello" \in HostBound(pc) THEN hello(main) ELSE Unloaded("hello", <<>>)
    /\ since' = IF pin = <<>> THEN since ELSE since \cup {"hello"}
    /\ pin' = pin
    /\ CallFrame

FloatDouble(n) ==
    /\ pc \in {"loaded", "failed"}
    /\ lastCall' = IF "float_double" \in HostBound(pc) THEN float_double(n, main)
                   ELSE Unloaded("float_double", <<n>>)
    /\ IF pin = <<>>
       THEN /\ pin' \in {<<>>, <<lastCall'>>}
            /\ since' = since
       ELSE /\ pin' = pin
            /\ since' = since \cup {IF <<n>> = pin[1].arg THEN "same" ELSE "other"}
    /\ CallFrame

Next ==
    \/ CreateRuntime
    \/ ImportMainPkg
    \/ ResolvePath
    \/ ActivateEnv
    \/ IncludeScript
    \/ Hello
    \/ \E n \in Inputs : FloatDouble(n)

Spec == Init /\ [][Next]_vars

\* ================================================================ claims
Loaded == pc = "loaded"
Called(fn) == lastCall.fn = fn
FiniteNumber(n) == n.t \in {"int", "float"} /\ n.k = "fin"
MinOf(S) == CHOOSE x \in S : \A y \in S : x <= y
\* an int that binary64 holds exactly and whose double is still finite
SmallEnough(n) ==
    n.b = {} \/ (MaxOf(n.b) - MinOf(n.b) < MantissaBits /\ MaxOf(n.b) < MaxExp)

\* C1 as stated: with the repository's script loaded, float_double(n) returns
\* a value equal to 2 * n for every finite int or float n.
C1_DoubleOfEveryFiniteNumber ==
    (Loaded /\ world.script = <<RepoScript>> /\ Called("float_double")
        /\ FiniteNumber(lastCall.arg[1]))
    => (lastCall.outcome = "return" /\ PyEq(lastCall.value, Times2(lastCall.arg[1])))

\* C1 amended: with the repository's script loaded, float_double(n) returns a
\* float equal to 2 * n for every finite float n and for every int n of at
\* most 53 significant bits and magnitude below 2^1023.
C1_DoubleOfExactFloats ==
    (Loaded /\ world.script = <<RepoScript>> /\ Called("float_double")
        /\ FiniteNumber(lastCall.arg[1])
        /\ (lastCall.arg[1].t = "int" => SmallEnough(lastCall.arg[1])))
    => (/\ lastCall.outcome = "return"
        /\ lastCall.value.t = "float"
        /\ PyEq(lastCall.value, Times2(lastCall.arg[1])))

C1_Witness ==
    /\ Loaded /\ world.script = <<RepoScript>> /\ Called("float_double")
    /\ lastCall.arg = <<PyFloat(-1, {1, 0, -1})>>
    /\ lastCall.outcome = "return"
    /\ lastCall.value = PyFloat(-1, {2, 1, 0})

InitErrors == {"JuliaStartError", "PkgActivateError", "IncludeError"}

\* C2: a call of hello or float_double made while the module has not loaded
\* (runtime started, environment activated, script included) never returns a
\* value: it raises the initialization error, and the peer is not invoked.
C2_NoCallBeforeInit ==
    (~Loaded /\ ~Called("none"))
    => (/\ lastCall.outcome = "raise"
        /\ lastCall.err \in InitErrors
        /\ lastCall.value = PyNone
        /\ lastCall.peer = <<>>)

C2_Witness ==
    /\ pc = "failed" /\ raised = "IncludeError" /\ main["hello"] = "ok"
    /\ Called("hello") /\ lastCall.outcome = "raise" /\ lastCall.err = "IncludeError"

\* C3: the runtime exists before the script path is assigned, the path is the
\* module's directory joined with julia_funcs.jl, the environment activated is
\* the parent of the script's directory and is activated after the path is
\* assigned, and the script is included only after the activation.
C3_InitOrder ==
    /\ p # <<>> => (jl # <<>> /\ p[1] = Append(Parent(world.file), "julia_funcs.jl"))
    /\ env # <<>> => (p # <<>> /\ env[1] = Parent(Parent(p[1])))
    /\ included # <<>> => (env # <<>> /\ included = p)
    /\ main # EmptyMain => included # <<>>

C3_Witness ==
    /\ Loaded /\ world.file = <<"src", "py_jl", "julia_funcs.py">>
    /\ env = << <<"src">> >> /\ included = << <<"src", "py_jl", "julia_funcs.jl">> >>

BadScript ==
    world.script = <<>> \/ \E i \in 1..Len(world.script[1]) : world.script[1][i] = SyntaxError
C4_State ==
    /\ (~world.juliaOk /\ pc # "l3")
       => (/\ pc = "failed" /\ raised = "JuliaStartError"
           /\ jl = <<>> /\ ~imported /\ p = <<>> /\ env = <<>> /\ included = <<>>
           /\ main = EmptyMain)
    /\ (world.juliaOk /\ ~world.projectOk /\ pc \notin {"l3", "l4", "l6", "l7"})
       => (/\ pc = "failed" /\ raised = "PkgActivateError"
           /\ env = <<>> /\ included = <<>> /\ main = EmptyMain)
    /\ (world.juliaOk /\ world.projectOk /\ BadScript
            /\ pc \notin {"l3", "l4", "l6", "l7", "l8"})
       => (pc = "failed" /\ raised = "IncludeError")
    /\ raised # "None" => (pc = "failed" /\ lastCall.outcome # "return")

\* C4: when Julia does not start, the environment does not activate or the
\* script is missing or fails, the module body ends with that exception at the
\* failing line, none of the later lines has run, the module stays failed for
\* good and no call of hello or float_double returns.
C4_InitFailureIsFatal ==
    [][/\ C4_State'
       /\ pc = "failed" => (pc' = "failed" /\ UNCHANGED <<raised, jl, imported, p, env, included, main>>)]_vars

C4_Witness ==
    /\ pc = "failed" /\ raised = "PkgActivateError" /\ world.script = <<RepoScript>>
    /\ Called("float_double") /\ lastCall.outcome = "raise"

\* C5: a call made on the loaded module whose peer function is undefined or
\* throws ends by raising that error to the caller, with no value returned,
\* and no call invokes the peer function more than once.
C5_DelegationFailureSurfaces ==
    (Loaded /\ ~Called("none"))
    => (/\ Len(lastCall.peer) <= 1
        /\ (Called("hello") \/ Float(lastCall.arg[1]).ok)
           => (/\ main[lastCall.fn] = "absent"
                  => (/\ lastCall.outcome = "raise" /\ lastCall.err = "AttributeError"
                      /\ lastCall.value = PyNone /\ lastCall.peer = <<>>)
               /\ main[lastCall.fn] = "throws"
                  => (/\ lastCall.outcome = "raise" /\ lastCall.err = "JuliaError"
                      /\ lastCall.value = PyNone /\ Len(lastCall.peer) = 1)))

C5_Witness ==
    /\ Loaded /\ Called("hello") /\ main["hello"] = "throws"
    /\ lastCall.outcome = "raise" /\ lastCall.err = "JuliaError" /\ Len(lastCall.peer) = 1

\* C6: a call of float_double(n) ends exactly as any earlier call of
\* float_double with the same n ended, whatever calls of hello and of
\* float_double with other arguments were made in between.
C6_SameArgumentSameResult ==
    (pin # <<>> /\ Called("float_double") /\ lastCall.arg = pin[1].arg)
    => (/\ lastCall.outcome = pin[1].outcome
        /\ lastCall.value = pin[1].value
        /\ lastCall.err = pin[1].err)

C6_Witness ==
    /\ Loaded /\ pin # <<>> /\ since = {"hello", "other", "same"}
    /\ Called("float_double") /\ lastCall.arg = pin[1].arg
    /\ lastCall.outcome = "return" /\ lastCall.value = pin[1].value

\* C7: every step taken once the module has loaded, that is every call of
\* hello or float_double, returning or raising, leaves the runtime handle,
\* the activated environment, the included script and Main's definitions
\* as they were.
C7_CallsLeaveRuntimeAlone ==
    [][Loaded => UNCHANGED <<jl, env, included, main>>]_vars

C7_Witness ==
    /\ Loaded /\ Called("float_double") /\ lastCall.outcome = "raise"
    /\ pin # <<>> /\ pin[1].outcome = "return"
    /\ jl # <<>> /\ env # <<>> /\ main = [f \in Names |-> "ok"]

LineRank(line) ==
    CASE line = "l3" -> 1 [] line = "l4" -> 2 [] line = "l6" -> 3
      [] line = "l7" -> 4 [] line = "l8" -> 5 [] OTHER -> 6

\* C8: the lines of the module body run at most once each and in one
\* direction, and once the module has loaded no call moves it out of the
\* loaded state or runs a line of the body again.
C8_OneTransition ==
    [][/\ pc' # pc => LineRank(pc') > LineRank(pc)
       /\ Loaded => (pc' = "loaded" /\ UNCHANGED <<raised, imported, p>>)]_vars

C8_Witness ==
    /\ Loaded /\ Called("hello") /\ lastCall.outcome = "return"
    /\ pin # <<>> /\ "same" \in since

\* C9: on a loaded module whose script defines hello, a call of hello returns,
\* and returns the value of the peer's hello, which is not empty, after a
\* single invocation of the peer's hello.
C9_HelloReturnsGreeting ==
    (Loaded /\ main["hello"] = "ok" /\ Called("hello"))
    => (/\ lastCall.outcome = "return"
        /\ lastCall.value = JlHello
        /\ lastCall.value.t = "str" /\ lastCall.value.txt # <<>>
        /\ lastCall.peer = <<[name |-> "hello", args |-> <<>>]>>)

C9_Witness ==
    /\ Loaded /\ world.script = <<RepoScript>> /\ Called("hello")
    /\ lastCall.outcome = "return" /\ Len(lastCall.value.txt) = 5

ConversionErrors == {"TypeError", "ValueError", "OverflowError"}

\* C10: float_double passes the peer the float made from n and nothing else,
\* and when n has no float (None, a non-numeric string, an int too large) the
\* conversion's error is raised without any invocation of the peer.
C10_ConvertsBeforeDelegating ==
    (Loaded /\ Called("float_double"))
    => LET n == lastCall.arg[1]
           c == Float(n)
       IN  /\ \A i \in 1..Len(lastCall.peer) :
                /\ lastCall.peer[i].name = "float_double"
                /\ Len(lastCall.peer[i].args) = 1
                /\ lastCall.peer[i].args[1].t = "float"
                /\ c.ok /\ lastCall.peer[i].args[1] = c.val
           /\ ~c.ok => (/\ lastCall.outcome = "raise" /\ lastCall.err = c.err
                        /\ lastCall.err \in ConversionErrors /\ lastCall.peer = <<>>)
           /\ n.t = "NoneType" => lastCall.err = "TypeError"
           /\ n = PyStr(<<"a", "b", "c">>) => lastCall.err = "ValueError"
           /\ n = PyInt(1, {MaxExp + 1}) => lastCall.err = "OverflowError"

C10_Witness ==
    /\ Loaded /\ Called("float_double") /\ main["float_double"] = "ok"
    /\ lastCall.arg = <<PyInt(1, {6, 5, 2})>>
    /\ lastCall.peer = <<[name |-> "float_double", args |-> <<PyFloat(1, {6, 5, 2})>>]>>
    /\ pin # <<>> /\ pin[1].arg = <<PyNone>> /\ pin[1].err = "TypeError" /\ pin[1].peer = <<>>

====
